---- MODULE Spec2Model ----
(***************************************************************************)
(* Model of SoM_Flash_Monitor.py: one Worker thread per board reading a    *)
(* serial port and posting signals to the main (GUI) thread, which owns    *)
(* the per-board progress bars, logs and timers.                           *)
(*                                                                         *)
(* Sequences are 1-based, Python lists are 0-based: the list element of    *)
(* board_id b is element b + 1 of the corresponding sequence.              *)
(***************************************************************************)
EXTENDS Integers, Sequences, FiniteSets, TLC

\* ------------------------------------------------------------------ bounds
\* Largest number of boards registered over a run.
MaxBoards == 2
\* Largest number of readline() calls in the single-session specification.
MaxLines == 2
\* Largest number of readline() calls over all workers in the multi-board
\* specification.
MaxFleetLines == 1
\* Largest number of progress ticks over all boards in the multi-board
\* specification.
MaxFleetTicks == 1

\* ------------------------------------------------------- program constants
\* value += 100 / 77
ProgressStepNum == 100
ProgressStepDen == 77
\* progress_bar.setRange(0, 100)
BarMinimum == 0
BarMaximum == 100
\* A freshly constructed QProgressBar reports value() = minimum - 1 until the
\* first accepted setValue; the program never sets an initial value.
BarInitial == -1

\* ------------------------------------------------------------ text helpers
\* "Span Gateway 2.0.0 span-gateway" as code points.
Marker ==
  << 83, 112, 97, 110, 32, 71, 97, 116, 101, 119, 97, 121, 32,
     50, 46, 48, 46, 48, 32,
     115, 112, 97, 110, 45, 103, 97, 116, 101, 119, 97, 121 >>

IsCont(b) == b \in 128..191

\* Length of the well-formed UTF-8 sequence starting at s[i], 0 if there is none.
Utf8Len(s, i) ==
  LET n  == Len(s)
      b0 == s[i]
      c(k) == i + k <= n /\ IsCont(s[i + k])
      r(k, lo, hi) == i + k <= n /\ s[i + k] \in lo..hi
  IN  IF b0 < 128 THEN 1
      ELSE IF b0 \in 194..223 /\ c(1) THEN 2
      ELSE IF b0 = 224 /\ r(1, 160, 191) /\ c(2) THEN 3
      ELSE IF b0 \in (225..236) \cup (238..239) /\ c(1) /\ c(2) THEN 3
      ELSE IF b0 = 237 /\ r(1, 128, 159) /\ c(2) THEN 3
      ELSE IF b0 = 240 /\ r(1, 144, 191) /\ c(2) /\ c(3) THEN 4
      ELSE IF b0 \in 241..243 /\ c(1) /\ c(2) /\ c(3) THEN 4
      ELSE IF b0 = 244 /\ r(1, 128, 143) /\ c(2) /\ c(3) THEN 4
      ELSE 0

\* Code point of the well-formed sequence of length n starting at s[i].
CodePoint(s, i, n) ==
  IF n = 1 THEN s[i]
  ELSE IF n = 2 THEN (s[i] - 192) * 64 + (s[i + 1] - 128)
  ELSE IF n = 3 THEN (s[i] - 224) * 4096 + (s[i + 1] - 128) * 64 + (s[i + 2] - 128)
  ELSE (s[i] - 240) * 262144 + (s[i + 1] - 128) * 4096
         + (s[i + 2] - 128) * 64 + (s[i + 3] - 128)

RECURSIVE DecodeFrom(_, _)
DecodeFrom(s, i) ==
  IF i > Len(s) THEN << >>
  ELSE LET n == Utf8Len(s, i)
       IN  IF n = 0 THEN DecodeFrom(s, i + 1)
           ELSE << CodePoint(s, i, n) >> \o DecodeFrom(s, i + n)

\* bytes.decode('utf-8', errors='ignore'): undecodable bytes are dropped.
DecodeIgnore(bytes) == DecodeFrom(bytes, 1)

\* Whether bytes.decode('utf-8', errors='ignore') raises UnicodeDecodeError:
\* with errors='ignore' it never does.
DecodeRaises(bytes) == FALSE

\* str.isspace() for one code point.
IsSpace(c) ==
  \/ c \in 9..13
  \/ c \in 28..32
  \/ c \in {133, 160, 5760, 8232, 8233, 8239, 8287, 12288}
  \/ c \in 8192..8202

RECURSIVE LStrip(_)
LStrip(t) == IF t # << >> /\ IsSpace(Head(t)) THEN LStrip(Tail(t)) ELSE t

RECURSIVE RStrip(_)
RStrip(t) ==
  IF t # << >> /\ IsSpace(t[Len(t)]) THEN RStrip(SubSeq(t, 1, Len(t) - 1)) ELSE t

\* str.strip()
Strip(t) == RStrip(LStrip(t))

\* needle in hay
Contains(hay, needle) ==
  \E i \in 0..(Len(hay) - Len(needle)) :
     SubSeq(hay, i + 1, i + Len(needle)) = needle

\* "Span Gateway 2.0.0 span-gateway" in data
HasMarker(data) == Contains(data, Marker)

\* Whether a byte chunk holds a byte that is part of no well-formed sequence.
RECURSIVE InvalidFrom(_, _)
InvalidFrom(s, i) ==
  IF i > Len(s) THEN FALSE
  ELSE LET n == Utf8Len(s, i)
       IN  IF n = 0 THEN TRUE ELSE InvalidFrom(s, i + n)

HasInvalidBytes(bytes) == InvalidFrom(bytes, 1)

\* ------------------------------------------------------------------ inputs
\* "ok\r\n"
LineBoot == << 111, 107, 13, 10 >>
\* the marker line
LineMarker == Marker \o << 10 >>
\* " Span<FF> Gateway 2.0.0 span-gateway\r\n": an invalid byte inside the marker
LineBadMarker ==
  << 32 >> \o SubSeq(Marker, 1, 4) \o << 255 >> \o SubSeq(Marker, 5, 31) \o << 13, 10 >>
\* e-acute, then 0xFF and a truncated three-byte sequence
LineBad == << 195, 169, 255, 226, 130, 10 >>

\* What readline() can return.
Chunks == { LineBoot, LineMarker, LineBadMarker, LineBad }

\* What serial.tools.list_ports.comports() can return.
PortLists == { << "ttyUSB0" >>, << "ttyUSB0", "ttyUSB1" >> }

\* ------------------------------------------------------------------- state
VARIABLES
  workers,          \* self.workers: the Worker objects, in registration order
  wpc,              \* where each worker thread is in Worker.run
  ser,              \* each run's local `ser`: "unbound", "open" or "closed"
  nread,            \* readline() calls each worker has made
  pending,          \* each run's position in lines 37-42: the emits of the line
                    \* just read that it has not made yet, in order
  queue,            \* signals posted to the main thread, not yet delivered
  progress_bars,    \* self.progress_bars: each bar's value()
  text_logs,        \* self.text_logs: each log's entries
  elapsed_timers,   \* self.elapsed_timers: "None" or "started"
  progress_timers,  \* self.progress_timers: "None", "active" or "stopped"
  time_timers,      \* self.time_timers: "None" or "active"
  mpc,              \* the main thread: idle in the event loop, or inside closeEvent
  aborted,          \* the process was aborted by an exception escaping a thread
  ticks,            \* history: progress ticks delivered to each board
  obs,              \* history: what each worker did (signals emitted, closes, ...)
  time_labels,      \* self.time_labels: each label's text
  elapsed           \* what each board's QElapsedTimer.elapsed() last returned (ms)

vars == << workers, wpc, ser, nread, pending, queue, progress_bars, text_logs,
           elapsed_timers, progress_timers, time_timers, mpc, aborted, ticks, obs,
           time_labels, elapsed >>

\* The elapsed-time display, which only update_time touches.
TimeFrame == << time_labels, elapsed >>

\* self.timers: created empty and never appended to.
timers == << >>

Boards == 1..Len(workers)

\* Worker.__init__
NewWorker(port, baudrate, board_id) ==
  [ port |-> port, baudrate |-> baudrate, board_id |-> board_id,
    running |-> TRUE, first_transmission_received |-> FALSE ]

NewObs ==
  [ sent |-> << >>, lateSteps |-> 0, lateIter |-> 0, badChunks |-> 0, markerLines |-> 0,
    opened |-> FALSE, failed |-> FALSE, closes |-> 0, stopCalls |-> 0,
    stopsWhenDone |-> 0 ]

\* Mutant of NextBoardId: the number of sessions still running.
NextBoardId_Running(ws) == Cardinality({ i \in DOMAIN ws : ws[i].running })

\* board_id = len(self.workers)
NextBoardId(ws) == Len(ws)

\* baudrate = 115200
Baudrate == 115200

\* The for loop of add_boards, as far as self.workers goes.
RECURSIVE AddBoardsTo(_, _)
AddBoardsTo(ws, ports) ==
  IF ports = << >> THEN ws
  ELSE AddBoardsTo(Append(ws, NewWorker(Head(ports), Baudrate, NextBoardId(ws))),
                   Tail(ports))

Fill(k, v) == [ i \in 1..k |-> v ]

RECURSIVE Sum(_)
Sum(q) == IF q = << >> THEN 0 ELSE Head(q) + Sum(Tail(q))

Init ==
  /\ workers = << >>
  /\ wpc = << >>
  /\ ser = << >>
  /\ nread = << >>
  /\ pending = << >>
  /\ queue = << >>
  /\ progress_bars = << >>
  /\ text_logs = << >>
  /\ elapsed_timers = << >>
  /\ progress_timers = << >>
  /\ time_timers = << >>
  /\ mpc = [ at |-> "idle", i |-> 0 ]
  /\ aborted = FALSE
  /\ ticks = << >>
  /\ obs = << >>
  /\ time_labels = << >>
  /\ elapsed = << >>

\* ------------------------------------------------------------ main thread
MainIdle == mpc.at = "idle" /\ ~aborted

\* The event loop still hands out the signals already posted, and the timeouts
\* of the timers closeEvent left active, once closeEvent has returned, until
\* app.exec() returns.
EventLoopRuns == mpc.at \in { "idle", "closed" } /\ ~aborted

\* MainWindow.add_boards with comports() returning `ports`; add_board appends one
\* element to every per-board list and starts the worker thread.
AddBoards(ports) ==
  /\ MainIdle
  /\ Len(workers) + Len(ports) <= MaxBoards
  /\ LET k == Len(ports) IN
       /\ workers' = AddBoardsTo(workers, ports)
       /\ wpc' = wpc \o Fill(k, "start")
       /\ ser' = ser \o Fill(k, "unbound")
       /\ nread' = nread \o Fill(k, 0)
       /\ pending' = pending \o Fill(k, << >>)
       /\ progress_bars' = progress_bars \o Fill(k, BarInitial)
       /\ text_logs' = text_logs \o Fill(k, << >>)
       /\ elapsed_timers' = elapsed_timers \o Fill(k, "None")
       /\ progress_timers' = progress_timers \o Fill(k, "None")
       /\ time_timers' = time_timers \o Fill(k, "None")
       /\ ticks' = ticks \o Fill(k, 0)
       /\ obs' = obs \o Fill(k, NewObs)
       /\ time_labels' = time_labels \o Fill(k, << >>)
       /\ elapsed' = elapsed \o Fill(k, 0)
  /\ UNCHANGED << queue, mpc, aborted >>

\* QProgressBar.setValue: a value outside the range set by setRange(0, 100)
\* leaves the current value alone.
SetValue(cur, v) == IF v < BarMinimum \/ v > BarMaximum THEN cur ELSE v

\* int(x) for x = num / den with den > 0: truncation toward zero.
IntTrunc(num, den) == IF num >= 0 THEN num \div den ELSE -((-num) \div den)

\* int(value + 100 / 77)
Incremented(value) ==
  IntTrunc(value * ProgressStepDen + ProgressStepNum, ProgressStepDen)

\* Mutant of Stop: the flag is flipped instead of cleared.
Stop_Toggle(w) == [ w EXCEPT !.running = ~@ ]

\* Worker.stop
Stop(w) == [ w EXCEPT !.running = FALSE ]

\* History of a stop() call, with whether the worker's run() had already
\* returned.
NoteStop(o, finished) ==
  [ o EXCEPT !.stopCalls = @ + 1,
             !.stopsWhenDone = IF finished THEN @ + 1 ELSE @ ]

LogEntry(kind, text) == [ kind |-> kind, text |-> text ]

\* MainWindow.update_progress(board_id, progress_bars[board_id], progress_timer,
\* workers[board_id]), run by the board's progress timer.
UpdateProgress(b) ==
  LET value == progress_bars[b] IN
  IF value < 100
    THEN /\ progress_bars' = [ progress_bars EXCEPT ![b] = SetValue(@, Incremented(value)) ]
         /\ UNCHANGED << progress_timers, text_logs, workers, obs >>
    ELSE /\ progress_timers' = [ progress_timers EXCEPT ![b] = "stopped" ]
         /\ progress_bars' = [ progress_bars EXCEPT ![b] = SetValue(@, 100) ]
         /\ text_logs' = [ text_logs EXCEPT ![b] =
                             Append(@, LogEntry("This board is flashed successfully", << >>)) ]
         /\ workers' = [ workers EXCEPT ![b] = Stop(@) ]
         /\ obs' = [ obs EXCEPT ![b] = NoteStop(@, wpc[b] = "done") ]

\* The progress timer of board b fires (every 10 s while it is active).
ProgressTick(b) ==
  /\ EventLoopRuns
  /\ progress_timers[b] = "active"
  /\ UpdateProgress(b)
  /\ ticks' = [ ticks EXCEPT ![b] = @ + 1 ]
  /\ UNCHANGED << wpc, ser, nread, queue, elapsed_timers, time_timers, mpc, aborted >>
  /\ UNCHANGED << TimeFrame, pending >>

\* MainWindow.start_timers(board_id)
StartTimers(b) ==
  /\ elapsed_timers' = [ elapsed_timers EXCEPT ![b] = "started" ]
  /\ progress_timers' = [ progress_timers EXCEPT ![b] = "active" ]
  /\ time_timers' = [ time_timers EXCEPT ![b] = "active" ]
  /\ UNCHANGED << progress_bars, text_logs >>

\* MainWindow.update_log(board_id, message)
UpdateLog(b, message) ==
  /\ text_logs' = [ text_logs EXCEPT ![b] = Append(@, LogEntry("line", message)) ]
  /\ UNCHANGED << progress_bars, elapsed_timers, progress_timers, time_timers >>

\* MainWindow.handle_error(board_id, error_message)
HandleError(b, kind) ==
  /\ text_logs' = [ text_logs EXCEPT ![b] = Append(@, LogEntry(kind, << >>)) ]
  /\ UNCHANGED << progress_bars, elapsed_timers, progress_timers, time_timers >>

\* MainWindow.handle_flashed(board_id)
HandleFlashed(b) ==
  /\ progress_bars' = [ progress_bars EXCEPT ![b] = SetValue(@, 100) ]
  /\ text_logs' = [ text_logs EXCEPT ![b] =
                      Append(@, LogEntry("Firmware flashing completed", << >>)) ]
  /\ UNCHANGED << elapsed_timers, progress_timers, time_timers >>

\* Decimal digits of n >= 0, as code points.
RECURSIVE Digits(_)
Digits(n) == IF n < 10 THEN << 48 + n >> ELSE Digits(n \div 10) \o << 48 + (n % 10) >>

\* f"{n:0<width>}": zero-padded on the left to at least `width` characters.
ZeroPad(n, width) ==
  LET d == Digits(n)
  IN  IF Len(d) >= width THEN d ELSE Fill(width - Len(d), 48) \o d

\* Mutant of Hours: the hours do not wrap at 24.
Hours_NoWrap(e) == e \div 3600000

\* hours = (elapsed // 3600000) % 24
Hours(e) == (e \div 3600000) % 24

\* minutes = (elapsed // 60000) % 60
Minutes(e) == (e \div 60000) % 60

\* seconds = (elapsed // 1000) % 60
Seconds(e) == (e \div 1000) % 60

\* milliseconds = elapsed % 1000
Milliseconds(e) == e % 1000

\* f"{hours:02}:{minutes:02}:{seconds:02}.{milliseconds:03}"
FormatTime(e) ==
  ZeroPad(Hours(e), 2) \o << 58 >> \o ZeroPad(Minutes(e), 2) \o << 58 >>
    \o ZeroPad(Seconds(e), 2) \o << 46 >> \o ZeroPad(Milliseconds(e), 3)

\* Values QElapsedTimer.elapsed() is followed through: every combination of
\* 0, 1, 23, 24 hours, 0, 1, 59 minutes, 0, 1, 59 seconds and 0, 234, 999 ms.
ElapsedSamples ==
  { h * 3600000 + m * 60000 + sec * 1000 + ms :
      h \in { 0, 1, 23, 24 }, m \in { 0, 1, 59 }, sec \in { 0, 1, 59 },
      ms \in { 0, 234, 999 } }

\* MainWindow.update_time(board_id), run by the board's time timer, when
\* elapsed_timers[board_id].elapsed() returns e (the clock is monotonic).
UpdateTime(b, e) ==
  /\ EventLoopRuns
  /\ time_timers[b] = "active"
  /\ e >= elapsed[b]
  /\ elapsed' = [ elapsed EXCEPT ![b] = e ]
  /\ time_labels' = [ time_labels EXCEPT ![b] = FormatTime(e) ]
  /\ UNCHANGED << workers, wpc, ser, nread, pending, queue, progress_bars, text_logs,
                  elapsed_timers, progress_timers, time_timers, mpc, aborted,
                  ticks, obs >>

\* The main thread's event loop delivers the oldest posted signal to the slot
\* add_board connected to it.
Deliver ==
  /\ EventLoopRuns
  /\ queue # << >>
  /\ LET e == Head(queue)
         b == e.board_id + 1
     IN  CASE e.sig = "first_transmission_signal" -> StartTimers(b)
           [] e.sig = "log_signal" -> UpdateLog(b, e.text)
           [] e.sig = "error_signal" -> HandleError(b, e.kind)
           [] e.sig = "flashed_signal" -> HandleFlashed(b)
  /\ queue' = Tail(queue)
  /\ UNCHANGED << workers, wpc, ser, nread, mpc, aborted, ticks, obs >>
  /\ UNCHANGED << TimeFrame, pending >>

\* Mutant of WaitReturns: closeEvent does not wait.
WaitReturns_NoWait(b) == TRUE

\* QThread.wait(): returns once run() has returned.
WaitReturns(b) == wpc[b] = "done"

\* MainWindow.closeEvent, up to its first worker.wait(); with no workers the
\* two loops do nothing and the event is accepted.
CloseEventBegin ==
  /\ MainIdle
  /\ IF workers = << >>
       THEN /\ mpc' = [ at |-> "closed", i |-> 0 ]
            /\ UNCHANGED << workers, obs >>
       ELSE /\ mpc' = [ at |-> "wait", i |-> 1 ]
            /\ workers' = [ workers EXCEPT ![1] = Stop(@) ]
            /\ obs' = [ obs EXCEPT ![1] = NoteStop(@, wpc[1] = "done") ]
  /\ UNCHANGED << wpc, ser, nread, queue, progress_bars, text_logs, elapsed_timers,
                  progress_timers, time_timers, aborted, ticks >>
  /\ UNCHANGED << TimeFrame, pending >>

\* worker.wait() returns; closeEvent goes on to the next worker, or, after the
\* last one, stops every timer of self.timers (there is none) and accepts.
CloseEventNext ==
  /\ mpc.at = "wait" /\ ~aborted
  /\ WaitReturns(mpc.i)
  /\ IF mpc.i = Len(workers)
       THEN /\ mpc' = [ at |-> "closed", i |-> 0 ]
            /\ UNCHANGED << workers, obs >>
       ELSE /\ mpc' = [ at |-> "wait", i |-> mpc.i + 1 ]
            /\ workers' = [ workers EXCEPT ![mpc.i + 1] = Stop(@) ]
            /\ obs' = [ obs EXCEPT ![mpc.i + 1] = NoteStop(@, wpc[mpc.i + 1] = "done") ]
  /\ UNCHANGED << wpc, ser, nread, queue, progress_bars, text_logs, elapsed_timers,
                  progress_timers, time_timers, aborted, ticks >>
  /\ UNCHANGED << TimeFrame, pending >>

\* app.exec() returns after the last window was closed, and sys.exit ends the
\* process: nothing is handled any more.
AppExit ==
  /\ mpc.at = "closed" /\ ~aborted
  /\ mpc' = [ at |-> "exited", i |-> 0 ]
  /\ UNCHANGED << workers, wpc, ser, nread, pending, queue, progress_bars, text_logs,
                  elapsed_timers, progress_timers, time_timers, aborted, ticks, obs >>
  /\ UNCHANGED TimeFrame

\* ---------------------------------------------------------- worker thread
Signal(sig, board_id, kind, text) ==
  [ sig |-> sig, board_id |-> board_id, kind |-> kind, text |-> text ]

\* History of an emit by worker w in its loop iteration `iter`: the signal is
\* recorded with whether stop had already been requested, and lateSteps counts
\* the iterations that emitted after a stop request.
NoteSent(o, w, sigs, iter) ==
  [ o EXCEPT
      !.sent = @ \o [ i \in 1..Len(sigs) |->
                        [ sig |-> sigs[i].sig, kind |-> sigs[i].kind,
                          late |-> ~w.running ] ],
      !.lateSteps = IF sigs # << >> /\ ~w.running /\ o.lateIter # iter
                      THEN @ + 1 ELSE @,
      !.lateIter = IF sigs # << >> /\ ~w.running THEN iter ELSE @ ]

\* Mutant of LoopCondition: while True.
LoopCondition_Forever(w) == TRUE

\* while self.running
LoopCondition(w) == w.running

\* Mutant of NeedFirst: the latch is not consulted.
NeedFirst_Always(w) == TRUE

\* if not self.first_transmission_received
NeedFirst(w) == ~w.first_transmission_received

\* Mutant of LineSignals: the marker test and its emit come before the log emit.
LineSignals_FlashedFirst(w, data) ==
  (IF NeedFirst(w)
     THEN << Signal("first_transmission_signal", w.board_id, "", << >>) >>
     ELSE << >>)
  \o (IF HasMarker(data)
        THEN << Signal("flashed_signal", w.board_id, "", << >>) >>
        ELSE << >>)
  \o << Signal("log_signal", w.board_id, "", data) >>

\* The signals of one loop iteration that read `data`, in emission order.
LineSignals(w, data) ==
  (IF NeedFirst(w)
     THEN << Signal("first_transmission_signal", w.board_id, "", << >>) >>
     ELSE << >>)
  \o << Signal("log_signal", w.board_id, "", data) >>
  \o (IF HasMarker(data)
        THEN << Signal("flashed_signal", w.board_id, "", << >>) >>
        ELSE << >>)

WorkerFrame == << progress_bars, text_logs, elapsed_timers, progress_timers,
                  time_timers, mpc, ticks, time_labels, elapsed >>

\* History: the port of this session failed (open or I/O).
PortFailure(o) == [ o EXCEPT !.failed = TRUE ]

\* except serial.SerialException: emit error_signal; the finally block is next.
SerialException(b) ==
  LET w == workers[b]
      sigs == << Signal("error_signal", w.board_id, "Error: Serial port error", << >>) >>
  IN  /\ queue' = queue \o sigs
      /\ obs' = [ obs EXCEPT ![b] = NoteSent(PortFailure(@), w, sigs, nread[b] + 1) ]
      /\ wpc' = [ wpc EXCEPT ![b] = "finally" ]

\* ser = serial.Serial(self.port, self.baudrate, timeout=1) succeeds.
WorkerOpen(b) ==
  /\ ~aborted
  /\ wpc[b] = "start"
  /\ ser' = [ ser EXCEPT ![b] = "open" ]
  /\ wpc' = [ wpc EXCEPT ![b] = "loop" ]
  /\ obs' = [ obs EXCEPT ![b].opened = TRUE ]
  /\ UNCHANGED << workers, nread, pending, queue, aborted >>
  /\ UNCHANGED WorkerFrame

\* serial.Serial(...) raises SerialException: `ser` is never bound.
WorkerOpenFails(b) ==
  /\ ~aborted
  /\ wpc[b] = "start"
  /\ SerialException(b)
  /\ UNCHANGED << workers, ser, nread, pending, aborted >>
  /\ UNCHANGED WorkerFrame

\* The test of `while self.running`.
WorkerLoopTest(b) ==
  /\ ~aborted
  /\ wpc[b] = "loop"
  /\ wpc' = [ wpc EXCEPT ![b] = IF LoopCondition(workers[b]) THEN "body" ELSE "finally" ]
  /\ UNCHANGED << workers, ser, nread, pending, queue, aborted, obs >>
  /\ UNCHANGED WorkerFrame

\* One iteration with ser.in_waiting = 0: msleep(100) and back to the test.
WorkerIdlePoll(b) ==
  /\ ~aborted
  /\ wpc[b] = "body"
  /\ wpc' = [ wpc EXCEPT ![b] = "loop" ]
  /\ UNCHANGED << workers, ser, nread, pending, queue, aborted, obs >>
  /\ UNCHANGED WorkerFrame

\* An iteration with ser.in_waiting > 0: readline() returns `chunk`, it is
\* decoded and stripped, and the latch is set; the emits of lines 39-42 (or of
\* line 35) follow, one at a time.
WorkerReadLine(b, chunk) ==
  /\ ~aborted
  /\ wpc[b] = "body"
  /\ nread' = [ nread EXCEPT ![b] = @ + 1 ]
  /\ wpc' = [ wpc EXCEPT ![b] = "emit" ]
  /\ obs' = [ obs EXCEPT
               ![b].badChunks = IF HasInvalidBytes(chunk) THEN @ + 1 ELSE @,
               ![b].markerLines =
                  IF HasMarker(Strip(DecodeIgnore(chunk))) THEN @ + 1 ELSE @ ]
  /\ LET w == workers[b]
     IN  IF DecodeRaises(chunk)
           THEN /\ pending' = [ pending EXCEPT ![b] =
                                  << Signal("error_signal", w.board_id,
                                            "Error: Decoding error", << >>) >> ]
                /\ UNCHANGED workers
           ELSE /\ pending' = [ pending EXCEPT ![b] =
                                  LineSignals(w, Strip(DecodeIgnore(chunk))) ]
                /\ workers' = [ workers EXCEPT
                                  ![b].first_transmission_received = TRUE ]
  /\ UNCHANGED << ser, queue, aborted >>
  /\ UNCHANGED WorkerFrame

\* The next emit of the line just read; after the last one, msleep(100) (or
\* `continue`) and back to the test of the loop.
WorkerEmit(b) ==
  /\ ~aborted
  /\ wpc[b] = "emit"
  /\ LET sigs == << Head(pending[b]) >>
     IN  /\ queue' = queue \o sigs
         /\ obs' = [ obs EXCEPT ![b] = NoteSent(@, workers[b], sigs, nread[b]) ]
  /\ pending' = [ pending EXCEPT ![b] = Tail(@) ]
  /\ wpc' = [ wpc EXCEPT ![b] = IF Tail(pending[b]) = << >> THEN "loop" ELSE "emit" ]
  /\ UNCHANGED << workers, ser, nread, aborted >>
  /\ UNCHANGED WorkerFrame

\* ser.in_waiting or ser.readline() raises SerialException.
WorkerIOFails(b) ==
  /\ ~aborted
  /\ wpc[b] = "body"
  /\ SerialException(b)
  /\ UNCHANGED << workers, ser, nread, pending, aborted >>
  /\ UNCHANGED WorkerFrame

\* ser.in_waiting raises OSError (the ioctl on a device that went away): it is
\* not a serial.SerialException, so the except clause does not match and nothing
\* is emitted; the finally block runs and the exception goes on out of run().
WorkerIOFailsUncaught(b) ==
  /\ ~aborted
  /\ wpc[b] = "body"
  /\ wpc' = [ wpc EXCEPT ![b] = "unwinding" ]
  /\ obs' = [ obs EXCEPT ![b] = PortFailure(@) ]
  /\ UNCHANGED << workers, ser, nread, pending, queue, aborted >>
  /\ UNCHANGED WorkerFrame

\* finally: if ser.is_open: ser.close().  When serial.Serial(...) raised, `ser`
\* is unbound and evaluating ser.is_open raises UnboundLocalError out of run().
\* After an uncaught OSError the handle is closed and the OSError leaves run().
\* An exception escaping a QThread's run is fatal to the process.
WorkerFinally(b) ==
  /\ ~aborted
  /\ wpc[b] \in { "finally", "unwinding" }
  /\ IF ser[b] = "unbound"
       THEN /\ wpc' = [ wpc EXCEPT ![b] = "raised" ]
            /\ aborted' = TRUE
            /\ UNCHANGED << ser, obs >>
       ELSE /\ wpc' = [ wpc EXCEPT ![b] = IF @ = "unwinding" THEN "propagated" ELSE "done" ]
            /\ aborted' = (wpc[b] = "unwinding")
            /\ IF ser[b] = "open"
                 THEN /\ ser' = [ ser EXCEPT ![b] = "closed" ]
                      /\ obs' = [ obs EXCEPT ![b].closes = @ + 1 ]
                 ELSE UNCHANGED << ser, obs >>
  /\ UNCHANGED << workers, nread, pending, queue >>
  /\ UNCHANGED WorkerFrame

\* ------------------------------------------------------------ specification
WorkerStep(b, maxLines) ==
  \/ WorkerOpen(b)
  \/ WorkerOpenFails(b)
  \/ WorkerLoopTest(b)
  \/ WorkerIdlePoll(b)
  \/ \E chunk \in Chunks : Sum(nread) < maxLines /\ WorkerReadLine(b, chunk)
  \/ WorkerEmit(b)
  \/ WorkerIOFails(b)
  \/ WorkerIOFailsUncaught(b)
  \/ WorkerFinally(b)

\* Any number of boards up to MaxBoards, with MaxFleetLines lines read and
\* MaxFleetTicks progress ticks in all.
Next ==
  \/ \E ports \in PortLists : AddBoards(ports)
  \/ Deliver
  \/ \E b \in Boards : Sum(ticks) < MaxFleetTicks /\ ProgressTick(b)
  \/ CloseEventBegin
  \/ CloseEventNext
  \/ AppExit
  \/ \E b \in Boards : WorkerStep(b, MaxFleetLines)

Spec == Init /\ [][Next]_vars

\* One session: a single board, MaxLines lines read, and its progress timer
\* followed until it stops.
NextSession ==
  \/ workers = << >> /\ AddBoards(<< "ttyUSB0" >>)
  \/ Deliver
  \/ \E b \in Boards : ProgressTick(b)
  \/ CloseEventBegin
  \/ CloseEventNext
  \/ AppExit
  \/ \E b \in Boards : WorkerStep(b, MaxLines)

SpecSession == Init /\ [][NextSession]_vars

\* One session and its elapsed-time display: a single board, MaxFleetLines lines
\* read, and the time timer's update_time calls.
NextTime ==
  \/ workers = << >> /\ AddBoards(<< "ttyUSB0" >>)
  \/ Deliver
  \/ \E b \in Boards : \E e \in ElapsedSamples : UpdateTime(b, e)
  \/ CloseEventBegin
  \/ CloseEventNext
  \/ AppExit
  \/ \E b \in Boards : WorkerStep(b, MaxFleetLines)

SpecTime == Init /\ [][NextTime]_vars

\* One session reading at most MaxFleetLines lines, for the properties checked
\* under fairness.
NextSessionFair ==
  \/ workers = << >> /\ AddBoards(<< "ttyUSB0" >>)
  \/ Deliver
  \/ \E b \in Boards : ProgressTick(b)
  \/ CloseEventBegin
  \/ CloseEventNext
  \/ AppExit
  \/ \E b \in Boards : WorkerStep(b, MaxFleetLines)

\* The event loop keeps handling queued signals, an active progress timer keeps
\* firing, and the worker thread keeps being scheduled.
SpecSessionFair ==
  /\ Init /\ [][NextSessionFair]_vars
  /\ WF_vars(Deliver)
  /\ WF_vars(\E b \in Boards : ProgressTick(b))
  /\ WF_vars(\E b \in Boards : WorkerStep(b, MaxFleetLines))

\* ------------------------------------------------------------------ claims
CountSig(o, sig) == Cardinality({ i \in DOMAIN o.sent : o.sent[i].sig = sig })

CountKind(o, kind) == Cardinality({ i \in DOMAIN o.sent : o.sent[i].kind = kind })

CountLog(b, kind) ==
  Cardinality({ i \in DOMAIN text_logs[b] : text_logs[b][i].kind = kind })

\* C1: a session that has read one or more lines containing the marker, and has
\* made the emits of the lines it read, has emitted flashed_signal exactly once.
C1_FlashedOnce ==
  \A b \in Boards :
     (obs[b].markerLines >= 1 /\ pending[b] = << >>)
        => CountSig(obs[b], "flashed_signal") = 1

\* C2: in a session that never read the marker, once 77 progress ticks have been
\* delivered the progress value is 100 and the timeout path has reported
\* completion exactly once (and the timer is stopped, so no further tick acts).
C2_CompleteAfter77Ticks ==
  \A b \in Boards :
     (ticks[b] = ProgressStepDen /\ obs[b].markerLines = 0)
        => /\ progress_bars[b] = 100
           /\ CountLog(b, "This board is flashed successfully") = 1
           /\ progress_timers[b] = "stopped"

\* C3 as stated: the progress value is always within [0,100] and no step makes
\* it smaller.
C3_ProgressIn0To100 ==
  /\ [](\A b \in Boards : progress_bars[b] \in 0..100)
  /\ [][\A b \in Boards : progress_bars'[b] >= progress_bars[b]]_vars

\* C4 as stated: no signal is emitted by a worker once stop has been requested
\* on it.
C4_NoSignalAfterStop ==
  \A b \in Boards : \A i \in DOMAIN obs[b].sent : ~obs[b].sent[i].late

\* C4 amended: once stop has been requested, the worker emits signals from at
\* most one further iteration (the failed port open, or the loop iteration that
\* was in progress when stop was requested), and none after it has left the loop.
C4_AtMostOneLateStep ==
  \A b \in Boards :
     /\ obs[b].lateSteps <= 1
     /\ \A i, j \in DOMAIN obs[b].sent :
           (i < j /\ obs[b].sent[i].late) => obs[b].sent[j].late

\* C4 witness: a worker that emitted a line after stop was requested and then
\* left the loop and finished.
C4_Witness ==
  \E b \in Boards :
     /\ wpc[b] = "done"
     /\ obs[b].lateSteps = 1
     /\ \E i \in DOMAIN obs[b].sent :
           obs[b].sent[i].late /\ obs[b].sent[i].sig = "log_signal"

\* C5: after a fatal port failure in one session, every other session that has
\* not finished can still run (the failure does not terminate it).
C5_FailureIsolated ==
  \A a, b \in Boards :
     (a # b /\ obs[a].failed /\ wpc[b] \in { "start", "loop", "body", "emit", "finally" })
        => ~aborted

\* C6: run() never raises out of its release path, and a finished run has closed
\* its handle exactly once if it was opened and never otherwise.
C6_ReleasedExactlyOnce ==
  \A b \in Boards :
     /\ wpc[b] # "raised"
     /\ wpc[b] = "done" => obs[b].closes = (IF obs[b].opened THEN 1 ELSE 0)

\* C7: a worker has emitted exactly one decoding error per line read that held
\* an invalid encoding sequence (and is still in its loop after such a line).
C7_DecodeErrorPerBadLine ==
  \A b \in Boards :
     pending[b] = << >>
        => CountKind(obs[b], "Error: Decoding error") = obs[b].badChunks

\* C8: first_transmission_signal is emitted at most once per session, only for
\* the first line read, before any log_signal and right before that line's
\* log_signal; once the iteration that read the first line has made its emits,
\* it has been emitted exactly once.
C8_FirstTransmissionOnce ==
  \A b \in Boards :
     LET sent == obs[b].sent
         n == CountSig(obs[b], "first_transmission_signal")
     IN
     /\ n <= 1
     /\ n = 1 => nread[b] >= 1
     /\ (nread[b] >= 1 /\ wpc[b] # "emit") => n = 1
     /\ \A i \in DOMAIN sent :
           /\ sent[i].sig = "first_transmission_signal"
                => /\ \A j \in 1..(i - 1) : sent[j].sig # "log_signal"
                   /\ IF i < Len(sent)
                        THEN sent[i + 1].sig = "log_signal"
                        ELSE wpc[b] = "emit" /\ nread[b] = 1
           /\ sent[i].sig = "log_signal"
                => \E j \in 1..(i - 1) : sent[j].sig = "first_transmission_signal"

\* C8 witness: a session that has read two lines.
C8_Witness ==
  \E b \in Boards :
     /\ nread[b] >= 2
     /\ CountSig(obs[b], "log_signal") >= 2
     /\ CountSig(obs[b], "first_transmission_signal") = 1

\* C9: once closeEvent has returned, every worker has left run() and no serial
\* handle is open.
C9_CloseEventJoinsAll ==
  mpc.at \in { "closed", "exited" }
    => \A b \in Boards : wpc[b] = "done" /\ ser[b] # "open"

\* C9 witness: closeEvent returned with two sessions whose ports had been opened.
C9_Witness ==
  /\ mpc.at = "closed"
  /\ Len(workers) >= 2
  /\ \A b \in Boards : obs[b].opened /\ obs[b].closes = 1

\* C10: board ids are distinct and strictly increasing in registration order.
C10_IdsStrictlyIncreasing ==
  \A i, j \in Boards : i < j => workers[i].board_id < workers[j].board_id

\* C10 witness: a second add_boards call registers a board after the first
\* session has been stopped and its worker has finished.
C10_Witness ==
  /\ Len(workers) >= 2
  /\ wpc[1] = "done"
  /\ wpc[2] = "start"
  /\ ~workers[1].running

\* C11: stop is idempotent: after one or more stop() calls on a session,
\* including calls made after its run() has returned, the running flag is clear
\* exactly as after one call, and the serial handle is never closed twice.
C11_StopIdempotent ==
  \A b \in Boards :
     /\ obs[b].stopCalls >= 1 => ~workers[b].running
     /\ obs[b].closes <= 1
     /\ obs[b].stopsWhenDone >= 1 => wpc[b] = "done" /\ ser[b] = "closed"

\* C11 witness: stop() was called twice on a session, the second time after its
\* worker had finished and closed the handle.
C11_Witness ==
  \E b \in Boards :
     /\ obs[b].stopCalls = 2
     /\ obs[b].stopsWhenDone = 1
     /\ obs[b].closes = 1

TwoDigits(t, i) == (t[i] - 48) * 10 + (t[i + 1] - 48)

ThreeDigits(t, i) == (t[i] - 48) * 100 + (t[i + 1] - 48) * 10 + (t[i + 2] - 48)

\* C12: the label written for an elapsed value e reads HH:MM:SS.mmm with
\* mmm = e mod 1000, SS = (e div 1000) mod 60, MM = (e div 60000) mod 60 and
\* HH = (e div 3600000) mod 24; 3,661,234 ms gives 01:01:01.234 and 86,400,000 ms
\* gives hours 00.
C12_ElapsedFormat ==
  \A b \in Boards :
     time_labels[b] # << >> =>
       LET t == time_labels[b]
           e == elapsed[b]
       IN  /\ Len(t) = 12
           /\ t[3] = 58 /\ t[6] = 58 /\ t[9] = 46
           /\ \A i \in { 1, 2, 4, 5, 7, 8, 10, 11, 12 } : t[i] \in 48..57
           /\ TwoDigits(t, 1) = (e \div 3600000) % 24
           /\ TwoDigits(t, 4) = (e \div 60000) % 60
           /\ TwoDigits(t, 7) = (e \div 1000) % 60
           /\ ThreeDigits(t, 10) = e % 1000
           /\ e = 3661234 => t = << 48, 49, 58, 48, 49, 58, 48, 49, 46, 50, 51, 52 >>
           /\ e = 86400000 => t[1] = 48 /\ t[2] = 48

\* C12 witness: the label was written for an elapsed value of exactly 24 hours.
C12_Witness ==
  \E b \in Boards : elapsed[b] = 86400000 /\ time_labels[b] # << >>

\* C13: no session's log holds a completion report from both paths (the
\* Flashed handling and the progress estimator's timeout path).
C13_CompletionReportedOnce ==
  \A b \in Boards :
     ~ /\ CountLog(b, "Firmware flashing completed") >= 1
       /\ CountLog(b, "This board is flashed successfully") >= 1

\* C14: once a session's log holds a port error, no completion report (from
\* either path) is logged after it.
C14_ErroredIsTerminal ==
  \A b \in Boards :
     \A i, j \in DOMAIN text_logs[b] :
        (i < j /\ text_logs[b][i].kind = "Error: Serial port error")
          => text_logs[b][j].kind \notin
               { "Firmware flashing completed", "This board is flashed successfully" }

\* C15: a session's worker emits a port error exactly once if its port failed
\* (at open or inside the loop) and never otherwise, emits nothing after it, and
\* a session whose port failed to open has emitted no first_transmission_signal
\* and started no timer.
C15_PortErrorOnceAndLast ==
  \A b \in Boards :
     LET sent == obs[b].sent IN
     /\ CountKind(obs[b], "Error: Serial port error") = (IF obs[b].failed THEN 1 ELSE 0)
     /\ obs[b].failed
          => /\ sent # << >>
             /\ sent[Len(sent)].kind = "Error: Serial port error"
             /\ wpc[b] \notin { "loop", "body", "emit" }
     /\ (obs[b].failed /\ ~obs[b].opened)
          => /\ CountSig(obs[b], "first_transmission_signal") = 0
             /\ elapsed_timers[b] = "None"
     /\ CountLog(b, "Error: Serial port error") <= 1
     /\ CountLog(b, "Error: Serial port error") = 1 => obs[b].failed

IsMarkerLine(entry) == entry.kind = "line" /\ HasMarker(entry.text)

\* C16: in every session's log, a line or a Flashed report appears only once
\* the first transmission has been handled (timers started), and every Flashed
\* report comes after the marker line that caused it.
C16_DeliveredInOrder ==
  \A b \in Boards :
     LET log == text_logs[b] IN
     /\ (\E i \in DOMAIN log : log[i].kind \in { "line", "Firmware flashing completed" })
          => elapsed_timers[b] = "started"
     /\ \A j \in DOMAIN log :
          log[j].kind = "Firmware flashing completed"
            => Cardinality({ i \in 1..j : IsMarkerLine(log[i]) })
                 >= Cardinality({ i \in 1..j : log[i].kind = "Firmware flashing completed" })

\* C16 witness: a session whose log holds two lines and a Flashed report.
C16_Witness ==
  \E b \in Boards :
     /\ CountLog(b, "line") >= 2
     /\ CountLog(b, "Firmware flashing completed") >= 1

C18_NoTimerActiveAfterClose ==
  mpc.at \in { "closed", "exited" }
    => \A b \in Boards : progress_timers[b] # "active" /\ time_timers[b] # "active"

\* C19: every session that has read a first line eventually has its progress
\* timer stopped and its worker's running flag cleared.
C19_TimerEventuallyStopped ==
  \A b \in 1..MaxBoards :
     (b \in Boards /\ nread[b] >= 1)
       ~> (b \in Boards /\ progress_timers[b] = "stopped" /\ ~workers[b].running)

\* A session whose worker is running in its read loop with its port open.
Live(b) == workers[b].running /\ wpc[b] \in { "loop", "body", "emit" } /\ ser[b] = "open"

\* C20: no two live sessions are bound to the same port.
C20_OneLiveSessionPerPort ==
  \A i, j \in Boards :
     (i < j /\ workers[i].port = workers[j].port) => ~(Live(i) /\ Live(j))

====
